---- MODULE Spec2Model ----
(***************************************************************************)
(* Session registry and pairing orchestration of src/pair.js.               *)
(*                                                                           *)
(* One Node.js event loop runs every handler: a step of the model is one    *)
(* run-to-completion slice of JavaScript, from the resumption of an await   *)
(* (or the firing of a timer or event) to the next await.  The external     *)
(* protocol client, the file system and the timers are the environment.     *)
(*                                                                           *)
(* Environment assumptions of the model:                                     *)
(*  - an operation the code wraps in try/catch may throw where the code     *)
(*    awaits it (ensureDir, useMultiFileAuthState, makeWASocket,            *)
(*    requestPairingCode, sendMessage); the file operations of the          *)
(*    teardown paths (removeSync, remove, ensureDirSync, writeJsonSync)     *)
(*    complete normally;                                                     *)
(*  - timers and awaited calls complete in any order (the collaborator's    *)
(*    queries have no timeout, defaultQueryTimeoutMs: 0), so time is not    *)
(*    modelled: a pending timer may fire at any step;                       *)
(*  - a socket reports at most one 'open' and then at most one 'close';     *)
(*    it reports 'open' only for an identity that can log in, and issues no *)
(*    pairing code after it reported 'close';                               *)
(*  - generateSessionId never returns an identifier it returned before      *)
(*    (twelve characters of randomBytes), except under the workload that    *)
(*    lets a draw repeat (SpecReuse).                                        *)
(***************************************************************************)
EXTENDS Integers, Sequences, FiniteSets, TLC

\* ------------------------------------------------------------------ bounds
\* A behaviour runs under one workload: so many GET /pair requests, and so
\* many choices of the environment beyond the plain path (a connection
\* event, an exception, stored credentials that are already registered, a
\* POST /pair/cleanup).
MaxReq == 1        \* requests of the event-rich workload
MaxEnv == 2        \* environment choices of the event-rich workload
MaxDigits == 16    \* digits of the longest input given to validatePhoneNumber
MaxLive == 6       \* sessions of the largest registry given to getStats

\* -------------------------------------------------------- program constants
maxSessionsPerIP == 3

\* The capacity workload sends one request more than the cap admits, in an
\* environment that makes no choice beyond the plain path.
CapReq == maxSessionsPerIP + 1
RichWorkload == [req |-> MaxReq, env |-> MaxEnv, reuse |-> FALSE, debug |-> FALSE]
CapWorkload == [req |-> CapReq, env |-> 0, reuse |-> FALSE, debug |-> FALSE]

\* The reuse workload sends one request more than the event-rich one, with
\* one choice of the environment (an admin cleanup, say), and randomBytes
\* may return the bytes it returned for an earlier request.
ReuseReq == MaxReq + 1
ReuseWorkload == [req |-> ReuseReq, env |-> 1, reuse |-> TRUE, debug |-> FALSE]

\* The debug workload is the event-rich one in a process started with
\* ENABLE_DEBUG=true, where the pino logger writes its info lines.
DebugWorkload == [req |-> MaxReq, env |-> MaxEnv, reuse |-> FALSE, debug |-> TRUE]

\* The fault workload is one request with one choice of the environment more
\* than the event-rich one: 'open', a failed send and a 'close' all happen.
FaultWorkload == [req |-> 1, env |-> MaxEnv + 1, reuse |-> FALSE, debug |-> FALSE]

Reqs == 1..(IF MaxReq > CapReq THEN MaxReq ELSE CapReq)
Ids == Reqs                   \* session identifiers generateSessionId returns
NoId == 0                     \* an identifier generateSessionId never returns
AllIds == Ids \cup {NoId}
IPs == {"10.0.0.1", "10.0.0.2"}
Codes == {"123-456", "777-888"}

Digits == {"0", "1", "2", "3", "4", "5", "6", "7", "8", "9"}
RawInputs ==
    { <<"9", "2", "3", "1", "2", "3", "4", "5", "6", "7", "8", "9">>,
      <<"+", "9", "2", " ", "3", "1", "2", "-", "3", "4", "5", "6", "7", "8", "9">>,
      <<"1", "2", "3">>,
      <<"+">> }

NoStats == [absent |-> "stats"]         \* getStats was not called
NoSession == [absent |-> "session"]     \* activeSessions.get(id) === undefined
NoRecord == [absent |-> "record"]       \* no file sessions/expired/<id>.json
NoResponse == [absent |-> "response"]   \* res not yet used
Unset == "unset"                        \* a field that is not set
Pending == [absent |-> "result"]        \* the orchestrator has not returned
Undefined == [value |-> "undefined"]    \* the JavaScript value undefined

VARIABLES
    activeSessions,  \* SessionManager.activeSessions: id -> session | NoSession
    archive,         \* sessions/expired/<id>.json: id -> record | NoRecord
    archiveWrites,   \* number of writeJsonSync calls per id
    cleanupCalls,    \* number of cleanupSession(id) calls per id
    tempDir,         \* temp/<id> exists
    expiryTimer,     \* per request: the setTimeout of createSession
    pc,              \* per request: where the handler / orchestrator is suspended
    clientIP,        \* per request: req.ip ("": not yet arrived)
    reqPhone,        \* per request: validatedPhone, the orchestrator's phoneNumber
    sid,             \* per request: sessionId of the handler (NoId: none yet)
    raised,          \* per request: the operation of the outer try that threw
    result,          \* per request: pairingResult
    resp,            \* per request: the HTTP response sent
    sock,            \* per request: the socket makeWASocket returned, with what
                     \* happened on it (close requests, sends, the close reason,
                     \* the msgError the 'open' handler caught, the number of
                     \* connection.update events that were neither 'open'
                     \* nor 'close')
    evpc,            \* per request: where the 'open' handler is suspended
    log,             \* the log lines that name a phone, as written so far
    validation,      \* a call of validatePhoneNumber: its argument and result
    stats,           \* what the last call of getStats returned
    lim,             \* the workload of the behaviour
    spent            \* environment choices made so far

registry == <<activeSessions, archive, archiveWrites, cleanupCalls, tempDir>>
flow == <<pc, clientIP, reqPhone, sid, raised, result, resp>>
conn == <<sock, evpc>>
apart == <<lim, validation, stats>>     \* what no step of the pairing flow changes
budget == <<apart, spent>>
vars == <<activeSessions, archive, archiveWrites, cleanupCalls, tempDir, expiryTimer,
          pc, clientIP, reqPhone, sid, raised, result, resp, sock, evpc, log, validation, stats, lim, spent>>

\* one more choice of the environment
Spend ==
    /\ spent < lim.env
    /\ spent' = spent + 1
    /\ UNCHANGED apart

\* ---------------------------------------------------------------- gen-id.js
\* phone.replace(/\D/g, '')
StripNonDigits(s) == SelectSeq(s, LAMBDA c : c \in Digits)

\* The falsy results of validatePhoneNumber (false; the handler tests
\* !validatedPhone) are written as the empty sequence, which is no valid phone.
Falsy == <<>>

\* (mutant) the lower length bound excludes ten digits
validatePhoneNumber_tenTooShort(phone) ==
    LET cleaned == StripNonDigits(phone) IN
    IF cleaned = <<>> THEN Falsy
    ELSE IF Len(cleaned) <= 10 \/ Len(cleaned) > 15 THEN Falsy
    ELSE IF Head(cleaned) \in Digits \ {"0"} THEN cleaned
    ELSE Falsy

\* validatePhoneNumber: the cleaned digits, or false
validatePhoneNumber(phone) ==
    LET cleaned == StripNonDigits(phone) IN
    IF cleaned = <<>> THEN Falsy
    ELSE IF Len(cleaned) < 10 \/ Len(cleaned) > 15 THEN Falsy
    ELSE IF Head(cleaned) \in Digits \ {"0"} THEN cleaned
    ELSE Falsy

\* hashPhoneNumber: the first 16 hex digits of the SHA-256 of the phone.  The
\* digest is written as a tag followed by its preimage: equal phones have
\* equal digests, and no digest is a string of digits.
hashPhoneNumber(phone) == <<"sha256">> \o phone

\* The arguments validatePhoneNumber is tried on: n digits, the first of them
\* `lead`, written plainly, after a "+", or in groups of three with "-".
Digit(i, lead) == IF i = 1 THEN lead ELSE CHOOSE d \in Digits : d = ToString(i % 10)
Leads == {"0", "1", "9"}
Styles == {"plain", "plus", "grouped"}
RECURSIVE Grouped(_, _, _)
Grouped(i, n, lead) ==
    IF i > n THEN <<>>
    ELSE (IF i > 1 /\ i % 3 = 1 THEN <<"-">> ELSE <<>>)
         \o <<Digit(i, lead)>> \o Grouped(i + 1, n, lead)
Written(n, lead, style) ==
    CASE style = "plain" -> [i \in 1..n |-> Digit(i, lead)]
      [] style = "plus" -> <<"+">> \o [i \in 1..n |-> Digit(i, lead)]
      [] OTHER -> Grouped(1, n, lead)
ValidateInputs ==
    {Written(n, lead, style) : n \in 0..MaxDigits, lead \in Leads, style \in Styles}
    \cup {<<"a", "b", "c">>, <<" ">>}

NoCall == [phone |-> <<>>, called |-> FALSE, result |-> Falsy]

\* validatePhoneNumber(validation.phone) is called
Validate ==
    /\ ~validation.called
    /\ validation' = [validation EXCEPT !.called = TRUE,
                                        !.result = validatePhoneNumber(validation.phone)]
    /\ UNCHANGED <<registry, expiryTimer, flow, conn, log, stats, lim, spent>>

\* generateSessionId: twelve characters drawn from randomBytes.  Identifiers
\* not yet issued are interchangeable, so the least of them stands for a draw
\* that differs from every identifier issued before.  Nothing compares the
\* draw with the identifiers in use: under the reuse workload it may also
\* equal an identifier issued before.
IssuedIds == {sid[r] : r \in Reqs} \ {NoId}
FreshIds == {i \in Ids \ IssuedIds : \A j \in Ids \ IssuedIds : i <= j}
generateSessionId == IF lim.reuse THEN FreshIds \cup IssuedIds ELSE FreshIds

\* --------------------------------------------------------------------- log
\* console.log / logger.info at source line `line`, naming `phone`
LogLine(line, phone) == [line |-> line, phone |-> phone]

\* ------------------------------------------------------------ SessionManager
LiveIds == {id \in Ids : activeSessions[id] # NoSession}

SessionsOf(ip) == {id \in LiveIds : activeSessions[id].ip = ip}

\* (mutant) the comparison admits one session more
canCreateSession_offByOne(ip) == Cardinality(SessionsOf(ip)) <= maxSessionsPerIP

canCreateSession(ip) == Cardinality(SessionsOf(ip)) < maxSessionsPerIP

NewSession(id, ip, phone) ==
    [id |-> id, ip |-> ip, phone |-> phone, status |-> "initializing",
     socket |-> 0, pairingCode |-> Unset, error |-> Unset]

\* Object.assign(session, updates)
Merge(session, updates) ==
    [k \in DOMAIN session |-> IF k \in DOMAIN updates THEN updates[k] ELSE session[k]]

\* (mutant) an update of an absent session inserts one
updateSession_upsert(sessions, id, updates) ==
    IF sessions[id] # NoSession
    THEN [sessions EXCEPT ![id] = Merge(sessions[id], updates)]
    ELSE [sessions EXCEPT ![id] = Merge(NewSession(id, "", <<>>), updates)]

\* updateSession: the map after the call
updateSession(sessions, id, updates) ==
    IF sessions[id] # NoSession
    THEN [sessions EXCEPT ![id] = Merge(sessions[id], updates)]
    ELSE sessions

\* (mutant) the session is inserted and no expiry timer is scheduled
createSession_noTimer(r, id, ip, phone) ==
    /\ activeSessions' = [activeSessions EXCEPT ![id] = NewSession(id, ip, phone)]
    /\ UNCHANGED expiryTimer

\* createSession(sessionId, data) by the handler of request r
createSession(r, id, ip, phone) ==
    /\ activeSessions' = [activeSessions EXCEPT ![id] = NewSession(id, ip, phone)]
    /\ expiryTimer' = [expiryTimer EXCEPT ![r] = "pending"]

\* ws.close() requested on the socket of request s (0: no socket)
CloseBy(who, s) ==
    IF s = 0 THEN sock
    ELSE [sock EXCEPT ![s].closes[who] = @ + 1]

\* activeSessions.keys()
Keys(sessions) == {id \in DOMAIN sessions : sessions[id] # NoSession}

\* Array.from(activeSessions.values()): a Map iterates in insertion order,
\* which is the order of the identifiers when every draw is fresh
RECURSIVE ValuesFrom(_, _)
ValuesFrom(sessions, id) ==
    IF id \notin DOMAIN sessions THEN <<>>
    ELSE (IF sessions[id] # NoSession THEN <<sessions[id]>> ELSE <<>>)
         \o ValuesFrom(sessions, id + 1)
Values(sessions) == ValuesFrom(sessions, 1)

\* values.reduce((acc, session) => { acc[session.status] =
\*     (acc[session.status] || 0) + 1; return acc }, {})
RECURSIVE CountByStatus(_)
CountByStatus(values) ==
    IF values = <<>> THEN [s \in {} |-> 0]
    ELSE LET acc == CountByStatus(SubSeq(values, 1, Len(values) - 1))
             status == values[Len(values)].status
         IN [s \in DOMAIN acc \cup {status} |->
                IF s = status
                THEN (IF s \in DOMAIN acc THEN acc[s] ELSE 0) + 1
                ELSE acc[s]]

\* array.slice(-k)
Slice(array, k) ==
    IF Len(array) <= k THEN array
    ELSE SubSeq(array, Len(array) - k + 1, Len(array))

\* (mutant) the archival record is written outside the `if (session)` guard
cleanupSession_archiveUnguarded(id) ==
    LET session == activeSessions[id] IN
    /\ cleanupCalls' = [cleanupCalls EXCEPT ![id] = @ + 1]
    /\ archive' = [archive EXCEPT ![id] = session]
    /\ archiveWrites' = [archiveWrites EXCEPT ![id] = @ + 1]
    /\ IF session # NoSession
       THEN /\ log' = log \cup {LogLine(68, hashPhoneNumber(session.phone))}
            /\ sock' = CloseBy("cleanup", session.socket)
            /\ tempDir' = [tempDir EXCEPT ![id] = FALSE]
            /\ activeSessions' = [activeSessions EXCEPT ![id] = NoSession]
       ELSE UNCHANGED <<log, sock, tempDir, activeSessions>>

\* cleanupSession(sessionId)
cleanupSession(id) ==
    LET session == activeSessions[id] IN
    /\ cleanupCalls' = [cleanupCalls EXCEPT ![id] = @ + 1]
    /\ IF session # NoSession
       THEN /\ log' = log \cup {LogLine(68, hashPhoneNumber(session.phone))}
            /\ sock' = CloseBy("cleanup", session.socket)
            /\ tempDir' = [tempDir EXCEPT ![id] = FALSE]
            /\ activeSessions' = [activeSessions EXCEPT ![id] = NoSession]
            /\ archive' = [archive EXCEPT ![id] = session]
            /\ archiveWrites' = [archiveWrites EXCEPT ![id] = @ + 1]
       ELSE UNCHANGED <<log, sock, tempDir, activeSessions, archive, archiveWrites>>

\* (mutant) the sample is not cut to the last five
getStats_sampleAll(sessions) ==
    LET values == Values(sessions) IN
    [total |-> Cardinality(Keys(sessions)),
     byStatus |-> CountByStatus(values),
     recent |-> [i \in 1..Len(values) |->
                   [id |-> values[i].id,
                    phone |-> hashPhoneNumber(values[i].phone),
                    status |-> values[i].status]]]

\* getStats(): size, the reduce by status, slice(-5) with the phone hashed
\* (the age of a session is time, which is not modelled)
getStats(sessions) ==
    LET values == Values(sessions)
        recent == Slice(values, 5)
    IN
    [total |-> Cardinality(Keys(sessions)),
     byStatus |-> CountByStatus(values),
     recent |-> [i \in 1..Len(recent) |->
                   [id |-> recent[i].id,
                    phone |-> hashPhoneNumber(recent[i].phone),
                    status |-> recent[i].status]]]

\* GET /pair/stats with the right key: res.json({..., sessions: getStats()})
GetStats ==
    /\ stats = NoStats
    /\ stats' = getStats(activeSessions)
    /\ UNCHANGED <<registry, expiryTimer, flow, conn, log, validation, lim, spent>>

\* --------------------------------------------------------- the environment
\* Addresses and pairing codes are compared for equality only, so a value not
\* seen before stands for every value not seen before.
SeenIPs == {clientIP[r] : r \in Reqs} \ {""}
NextIPs == SeenIPs \cup (IF IPs \subseteq SeenIPs THEN {}
                         ELSE {CHOOSE ip \in IPs \ SeenIPs : TRUE})

SeenCodes == {result[r].code : r \in {q \in Reqs : "code" \in DOMAIN result[q]}} \ {Unset}
NextCodes == SeenCodes \cup (IF Codes \subseteq SeenCodes THEN {}
                             ELSE {CHOOSE c \in Codes \ SeenCodes : TRUE})

\* ------------------------------------------------------- router.get('/')
Response(status, error, code) == [status |-> status, error |-> error, code |-> code]

Success(code) == [success |-> TRUE, code |-> code, error |-> Unset]
Failure(error) == [success |-> FALSE, code |-> Unset, error |-> error]

\* (mutant) the failure branch answers without recording on the session
HandlerResume_failureNotRecorded(r, sessions, res) ==
    /\ result' = [result EXCEPT ![r] = res]
    /\ pc' = [pc EXCEPT ![r] = "done"]
    /\ IF res = Undefined
       THEN /\ activeSessions' = sessions
            /\ resp' = [resp EXCEPT ![r] = Response(500, "INTERNAL_ERROR", Unset)]
       ELSE IF res.success
       THEN /\ activeSessions' = updateSession(sessions, sid[r],
                    [status |-> "paired", pairingCode |-> res.code])
            /\ resp' = [resp EXCEPT ![r] = Response(200, Unset, res.code)]
       ELSE /\ activeSessions' = sessions
            /\ resp' = [resp EXCEPT ![r] = Response(500, "PAIRING_FAILED", Unset)]

\* (mutant) the success branch records the code and sends no response
HandlerResume_successUnanswered(r, sessions, res) ==
    /\ result' = [result EXCEPT ![r] = res]
    /\ IF res = Undefined
       THEN /\ activeSessions' = sessions
            /\ pc' = [pc EXCEPT ![r] = "done"]
            /\ resp' = [resp EXCEPT ![r] = Response(500, "INTERNAL_ERROR", Unset)]
       ELSE IF res.success
       THEN /\ activeSessions' = updateSession(sessions, sid[r],
                    [status |-> "paired", pairingCode |-> res.code])
            /\ pc' = [pc EXCEPT ![r] = "answer"]
            /\ UNCHANGED resp
       ELSE /\ activeSessions' = updateSession(sessions, sid[r],
                    [status |-> "failed", error |-> res.error])
            /\ pc' = [pc EXCEPT ![r] = "done"]
            /\ resp' = [resp EXCEPT ![r] = Response(500, "PAIRING_FAILED", Unset)]

\* (mutant) the TypeError of `pairingResult.success` escapes the handler
HandlerResume_typeErrorEscapes(r, sessions, res) ==
    /\ result' = [result EXCEPT ![r] = res]
    /\ pc' = [pc EXCEPT ![r] = "done"]
    /\ IF res = Undefined
       THEN /\ activeSessions' = sessions
            /\ UNCHANGED resp
       ELSE IF res.success
       THEN /\ activeSessions' = updateSession(sessions, sid[r],
                    [status |-> "paired", pairingCode |-> res.code])
            /\ resp' = [resp EXCEPT ![r] = Response(200, Unset, res.code)]
       ELSE /\ activeSessions' = updateSession(sessions, sid[r],
                    [status |-> "failed", error |-> res.error])
            /\ resp' = [resp EXCEPT ![r] = Response(500, "PAIRING_FAILED", Unset)]

\* The handler after `await initiateWhatsAppPairing(...)` returned res.
\* `sessions` is the map as the orchestrator's last slice left it.
HandlerResume(r, sessions, res) ==
    /\ result' = [result EXCEPT ![r] = res]
    /\ pc' = [pc EXCEPT ![r] = "done"]
    /\ IF res = Undefined
       THEN \* pairingResult.success throws a TypeError: the handler's catch
            /\ activeSessions' = sessions
            /\ resp' = [resp EXCEPT ![r] = Response(500, "INTERNAL_ERROR", Unset)]
       ELSE IF res.success
       THEN /\ activeSessions' = updateSession(sessions, sid[r],
                    [status |-> "paired", pairingCode |-> res.code])
            /\ resp' = [resp EXCEPT ![r] = Response(200, Unset, res.code)]
       ELSE /\ activeSessions' = updateSession(sessions, sid[r],
                    [status |-> "failed", error |-> res.error])
            /\ resp' = [resp EXCEPT ![r] = Response(500, "PAIRING_FAILED", Unset)]

Reject(r, status, error) ==
    /\ resp' = [resp EXCEPT ![r] = Response(status, error, Unset)]
    /\ pc' = [pc EXCEPT ![r] = "done"]
    /\ UNCHANGED <<activeSessions, expiryTimer, sid>>


\* (mutant) the session is created before the capacity check
pairGet_createBeforeCheck(r, raw, ip) ==
    LET phoneNumber == StripNonDigits(raw)
        validatedPhone == validatePhoneNumber(phoneNumber)
    IN
    /\ pc[r] = "idle"
    /\ r <= lim.req
    /\ IF r = 1 THEN TRUE ELSE pc[r - 1] # "idle"
    /\ clientIP' = [clientIP EXCEPT ![r] = ip]
    /\ reqPhone' = [reqPhone EXCEPT ![r] = validatedPhone]
    /\ log' = log \cup {LogLine(127, hashPhoneNumber(phoneNumber))}
    /\ IF phoneNumber = <<>> THEN Reject(r, 400, "VALIDATION_ERROR")
       ELSE IF validatedPhone = Falsy THEN Reject(r, 400, "VALIDATION_ERROR")
       ELSE \E id \in generateSessionId :
                /\ createSession(r, id, ip, validatedPhone)
                /\ sid' = [sid EXCEPT ![r] = id]
                /\ IF ~canCreateSession(ip)
                   THEN /\ resp' = [resp EXCEPT ![r] =
                                       Response(429, "RATE_LIMIT_EXCEEDED", Unset)]
                        /\ pc' = [pc EXCEPT ![r] = "done"]
                   ELSE /\ pc' = [pc EXCEPT ![r] = "ensureDir"]
                        /\ UNCHANGED resp
    /\ UNCHANGED <<archive, archiveWrites, cleanupCalls, tempDir, raised, result, conn, budget>>

\* GET /pair?number=raw from address ip, up to the first await of the
\* orchestrator (fs.ensureDir)
pairGet(r, raw, ip) ==
    LET phoneNumber == StripNonDigits(raw)
        validatedPhone == validatePhoneNumber(phoneNumber)
    IN
    /\ pc[r] = "idle"
    /\ r <= lim.req
    /\ IF r = 1 THEN TRUE ELSE pc[r - 1] # "idle"   \* requests arrive in index order
    /\ clientIP' = [clientIP EXCEPT ![r] = ip]
    /\ reqPhone' = [reqPhone EXCEPT ![r] = validatedPhone]
    /\ log' = log \cup {LogLine(127, hashPhoneNumber(phoneNumber))}
    /\ IF phoneNumber = <<>> THEN Reject(r, 400, "VALIDATION_ERROR")
       ELSE IF validatedPhone = Falsy THEN Reject(r, 400, "VALIDATION_ERROR")
       ELSE IF ~canCreateSession(ip) THEN Reject(r, 429, "RATE_LIMIT_EXCEEDED")
       ELSE \E id \in generateSessionId :
                /\ createSession(r, id, ip, validatedPhone)
                /\ sid' = [sid EXCEPT ![r] = id]
                /\ pc' = [pc EXCEPT ![r] = "ensureDir"]
                /\ UNCHANGED resp
    /\ UNCHANGED <<archive, archiveWrites, cleanupCalls, tempDir, raised, result, conn, budget>>

\* ------------------------------------------------ initiateWhatsAppPairing
\* (mutant) a catch block that returns the failure without removing tempDir
CatchOuter_noRemove(r, op, dirs) ==
    /\ Spend
    /\ raised' = [raised EXCEPT ![r] = op]
    /\ tempDir' = dirs
    /\ HandlerResume(r, activeSessions, Failure(op))
    /\ UNCHANGED <<archive, archiveWrites, cleanupCalls, expiryTimer, clientIP, reqPhone, sid, conn>>
    /\ UNCHANGED log

\* The outer catch after operation `op` threw, `dirs` being the temp
\* directories at that moment: tempDir is removed if it exists, then the
\* failure is returned to the handler.
CatchOuter(r, op, dirs) ==
    /\ Spend
    /\ raised' = [raised EXCEPT ![r] = op]
    /\ tempDir' = dirs
    /\ IF dirs[sid[r]]
       THEN /\ pc' = [pc EXCEPT ![r] = "remove"]
            /\ UNCHANGED <<activeSessions, result, resp>>
       ELSE HandlerResume(r, activeSessions, Failure(op))
    /\ UNCHANGED <<archive, archiveWrites, cleanupCalls, expiryTimer, clientIP, reqPhone, sid, conn>>
    /\ UNCHANGED log

\* await fs.ensureDir(tempDir) resolves
EnsureDirDone(r) ==
    /\ pc[r] = "ensureDir"
    /\ tempDir' = [tempDir EXCEPT ![sid[r]] = TRUE]
    /\ pc' = [pc EXCEPT ![r] = "authState"]
    /\ UNCHANGED <<activeSessions, archive, archiveWrites, cleanupCalls, expiryTimer, clientIP, reqPhone, sid,
                   raised, result, resp, conn, budget>>
    /\ UNCHANGED log

\* await fs.ensureDir(tempDir) rejects
EnsureDirThrow(r) ==
    /\ pc[r] = "ensureDir"
    /\ CatchOuter(r, "ensureDir", tempDir)

\* await useMultiFileAuthState(tempDir) rejects
AuthStateThrow(r) ==
    /\ pc[r] = "authState"
    /\ CatchOuter(r, "useMultiFileAuthState", tempDir)

\* useMultiFileAuthState resolved (the folder exists), makeWASocket throws
MakeSocketThrow(r) ==
    /\ pc[r] = "authState"
    /\ CatchOuter(r, "makeWASocket", [tempDir EXCEPT ![sid[r]] = TRUE])

\* await fs.remove(tempDir) of the catch block resolves
RemoveDone(r) ==
    /\ pc[r] = "remove"
    /\ tempDir' = [tempDir EXCEPT ![sid[r]] = FALSE]
    /\ HandlerResume(r, activeSessions, Failure(raised[r]))
    /\ UNCHANGED <<archive, archiveWrites, cleanupCalls, expiryTimer, clientIP, reqPhone, sid, raised, conn, budget>>
    /\ UNCHANGED log

\* useMultiFileAuthState resolved with state.creds.registered = registered
\* (the collaborator creates the folder when it is missing); makeWASocket
\* returns; the socket is stored on the session and the handlers are
\* registered.
AuthStateDone(r, registered) ==
    /\ pc[r] = "authState"
    /\ tempDir' = [tempDir EXCEPT ![sid[r]] = TRUE]
    /\ sock' = [sock EXCEPT ![r].phase = "connecting", ![r].registered = registered]
    /\ IF registered THEN Spend ELSE UNCHANGED budget
    /\ LET sessions == updateSession(activeSessions, sid[r], [socket |-> r]) IN
       IF ~registered
       THEN /\ activeSessions' = sessions
            /\ pc' = [pc EXCEPT ![r] = "requestCode"]
            /\ UNCHANGED <<result, resp>>
       ELSE HandlerResume(r, sessions, Undefined)
    /\ UNCHANGED <<archive, archiveWrites, cleanupCalls, expiryTimer, clientIP, reqPhone, sid, raised, evpc>>
    /\ UNCHANGED log

\* delay(2000) elapsed and sock.requestPairingCode(phoneNumber) resolved:
\* a connection that reported 'close' issues no code
PairingCodeDone(r, code) ==
    /\ pc[r] = "requestCode"
    /\ sock[r].phase = "connecting"
    /\ log' = IF lim.debug THEN log \cup {LogLine(369, reqPhone[r])} ELSE log
    /\ HandlerResume(r, activeSessions, Success(code))
    /\ UNCHANGED <<archive, archiveWrites, cleanupCalls, tempDir, expiryTimer, clientIP, reqPhone, sid, raised,
                   conn, budget>>

\* sock.requestPairingCode(phoneNumber) rejected: a choice of the
\* environment on a connection that may still issue a code, the one outcome
\* on a connection that reported 'close'
PairingCodeThrow(r) ==
    /\ pc[r] = "requestCode"
    /\ IF sock[r].phase = "connecting" THEN Spend ELSE UNCHANGED budget
    /\ log' = IF lim.debug THEN log \cup {LogLine(369, reqPhone[r])} ELSE log
    /\ HandlerResume(r, activeSessions, Failure("pairError"))
    /\ UNCHANGED <<archive, archiveWrites, cleanupCalls, tempDir, expiryTimer, clientIP, reqPhone, sid, raised, conn>>

\* ------------------------------------------- sock.ev.on('connection.update')
\* The identity can log in: the stored credentials were registered (the
\* orchestrator returned undefined) or a pairing code was issued.
CanLogIn(r) ==
    IF result[r] = Undefined THEN TRUE
    ELSE IF result[r] = Pending THEN FALSE
    ELSE result[r].success

\* (mutant) the 'open' update also resets the pairing code
ConnOpen_resetsCode(r) ==
    /\ sock[r].phase = "connecting"
    /\ CanLogIn(r)
    /\ Spend
    /\ sock' = [sock EXCEPT ![r].phase = "open"]
    /\ activeSessions' = updateSession(activeSessions, sid[r],
                              [status |-> "connected", pairingCode |-> Unset])
    /\ evpc' = [evpc EXCEPT ![r] = "settle"]
    /\ UNCHANGED <<archive, archiveWrites, cleanupCalls, tempDir, expiryTimer, flow>>
    /\ UNCHANGED log

\* connection === 'open'
ConnOpen(r) ==
    /\ sock[r].phase = "connecting"
    /\ CanLogIn(r)
    /\ Spend
    /\ sock' = [sock EXCEPT ![r].phase = "open"]
    /\ activeSessions' = updateSession(activeSessions, sid[r], [status |-> "connected"])
    /\ evpc' = [evpc EXCEPT ![r] = "settle"]
    /\ UNCHANGED <<archive, archiveWrites, cleanupCalls, tempDir, expiryTimer, flow>>
    /\ UNCHANGED log

CloseKinds == {"loggedOut", "error", "plain"}

\* (mutant) a close with another error reconnects
ConnClose_retries(r, kind) ==
    /\ sock[r].phase \in {"connecting", "open"}
    /\ Spend
    /\ sock' = [sock EXCEPT ![r].phase = IF kind = "error" THEN "connecting" ELSE "close",
                            ![r].lastDisconnect = kind]
    /\ activeSessions' =
          CASE kind = "loggedOut" ->
                 updateSession(activeSessions, sid[r],
                     [status |-> "logged_out", error |-> "Logged out from WhatsApp"])
            [] kind = "error" ->
                 updateSession(activeSessions, sid[r],
                     [status |-> "disconnected", error |-> "error.message"])
            [] OTHER -> activeSessions
    /\ UNCHANGED <<archive, archiveWrites, cleanupCalls, tempDir, expiryTimer, flow, evpc>>
    /\ UNCHANGED log

\* connection === 'close'; kind: statusCode === DisconnectReason.loggedOut,
\* another error, or no error at all
ConnClose(r, kind) ==
    /\ sock[r].phase \in {"connecting", "open"}
    /\ Spend
    /\ sock' = [sock EXCEPT ![r].phase = "close", ![r].lastDisconnect = kind]
    /\ activeSessions' =
          CASE kind = "loggedOut" ->
                 updateSession(activeSessions, sid[r],
                     [status |-> "logged_out", error |-> "Logged out from WhatsApp"])
            [] kind = "error" ->
                 updateSession(activeSessions, sid[r],
                     [status |-> "disconnected", error |-> "error.message"])
            [] OTHER -> activeSessions
    /\ UNCHANGED <<archive, archiveWrites, cleanupCalls, tempDir, expiryTimer, flow, evpc>>
    /\ UNCHANGED log

\* (mutant) an update that is neither 'open' nor 'close' sets `connecting`
ConnOther_setsConnecting(r) ==
    /\ sock[r].phase \in {"connecting", "open"}
    /\ Spend
    /\ sock' = [sock EXCEPT ![r].others = @ + 1]
    /\ activeSessions' = updateSession(activeSessions, sid[r], [status |-> "connecting"])
    /\ UNCHANGED <<archive, archiveWrites, cleanupCalls, tempDir, expiryTimer, flow, evpc>>
    /\ UNCHANGED log

\* connection.update whose `connection` is neither 'open' nor 'close'
\* ('connecting', or an update that carries only qr or another field): the
\* handler takes no branch
ConnOther(r) ==
    /\ sock[r].phase \in {"connecting", "open"}
    /\ Spend
    /\ sock' = [sock EXCEPT ![r].others = @ + 1]
    /\ UNCHANGED <<registry, expiryTimer, flow, evpc>>
    /\ UNCHANGED log

\* (mutant) the transport close is requested before the message is sent
SettleDone_closesFirst(r) ==
    /\ evpc[r] = "settle"
    /\ evpc' = [evpc EXCEPT ![r] = "send"]
    /\ sock' = [CloseBy("handler", r) EXCEPT ![r].sent = @ + 1]
    /\ UNCHANGED <<registry, expiryTimer, flow, budget>>
    /\ UNCHANGED log

\* 'open' handler: delay(2000) elapsed, sock.sendMessage(sock.user.id, ...) called
SettleDone(r) ==
    /\ evpc[r] = "settle"
    /\ evpc' = [evpc EXCEPT ![r] = "send"]
    /\ sock' = [sock EXCEPT ![r].sent = @ + 1]
    /\ UNCHANGED <<registry, expiryTimer, flow, budget>>
    /\ UNCHANGED log

\* 'open' handler: sock.user is undefined, the TypeError is caught
SendNoUser(r) ==
    /\ evpc[r] = "settle"
    /\ Spend
    /\ evpc' = [evpc EXCEPT ![r] = "closeDelay"]
    /\ sock' = [sock EXCEPT ![r].msgError = "sock.user is undefined"]
    /\ UNCHANGED <<registry, expiryTimer, flow>>
    /\ UNCHANGED log

\* 'open' handler: await sock.sendMessage resolved
SendDone(r) ==
    /\ evpc[r] = "send"
    /\ evpc' = [evpc EXCEPT ![r] = "closeDelay"]
    /\ UNCHANGED <<registry, expiryTimer, flow, sock, budget>>
    /\ UNCHANGED log

\* (mutant) the rejection of sendMessage ends the handler
SendThrow_escapes(r) ==
    /\ evpc[r] = "send"
    /\ Spend
    /\ evpc' = [evpc EXCEPT ![r] = "done"]
    /\ sock' = [sock EXCEPT ![r].msgError = "sendMessage rejected"]
    /\ UNCHANGED <<registry, expiryTimer, flow>>
    /\ UNCHANGED log

\* 'open' handler: await sock.sendMessage rejected, caught
SendThrow(r) ==
    /\ evpc[r] = "send"
    /\ Spend
    /\ evpc' = [evpc EXCEPT ![r] = "closeDelay"]
    /\ sock' = [sock EXCEPT ![r].msgError = "sendMessage rejected"]
    /\ UNCHANGED <<registry, expiryTimer, flow>>
    /\ UNCHANGED log

\* 'open' handler: delay(5000) elapsed; sock.ws.close() unless readyState is
\* CLOSED; setTimeout(cleanup, 10000)
CloseDelayDone(r) ==
    /\ evpc[r] = "closeDelay"
    /\ evpc' = [evpc EXCEPT ![r] = "cleanupTimer"]
    /\ sock' = IF sock[r].phase # "close" THEN CloseBy("handler", r) ELSE sock
    /\ UNCHANGED <<registry, expiryTimer, flow, budget>>
    /\ UNCHANGED log

\* the setTimeout of the 'open' handler fires
DelayedCleanupFire(r) ==
    /\ evpc[r] = "cleanupTimer"
    /\ evpc' = [evpc EXCEPT ![r] = "done"]
    /\ cleanupSession(sid[r])
    /\ UNCHANGED <<expiryTimer, flow, budget>>

\* ------------------------------------------------------------------ timers
\* the setTimeout of createSession fires
ExpiryFire(r) ==
    /\ expiryTimer[r] = "pending"
    /\ expiryTimer' = [expiryTimer EXCEPT ![r] = "fired"]
    /\ cleanupSession(sid[r])
    /\ UNCHANGED <<flow, evpc, budget>>

\* POST /pair/cleanup with body {sessionId: id}: the caller names an
\* identifier that was issued, or one that never is
AdminCleanup(id) ==
    /\ Spend
    /\ cleanupSession(id)
    /\ UNCHANGED <<expiryTimer, flow, evpc>>

\* everything but the live set, after construction
InitOutside ==
    /\ archive = [id \in AllIds |-> NoRecord]
    /\ archiveWrites = [id \in AllIds |-> 0]
    /\ cleanupCalls = [id \in AllIds |-> 0]
    /\ tempDir = [id \in AllIds |-> FALSE]
    /\ expiryTimer = [r \in Reqs |-> "unset"]
    /\ pc = [r \in Reqs |-> "idle"]
    /\ clientIP = [r \in Reqs |-> ""]
    /\ reqPhone = [r \in Reqs |-> Falsy]
    /\ log = {}
    /\ sid = [r \in Reqs |-> NoId]
    /\ raised = [r \in Reqs |-> Unset]
    /\ result = [r \in Reqs |-> Pending]
    /\ resp = [r \in Reqs |-> NoResponse]
    /\ sock = [r \in Reqs |-> [phase |-> "none",
                               closes |-> [cleanup |-> 0, handler |-> 0],
                               sent |-> 0, registered |-> FALSE,
                               lastDisconnect |-> "none", msgError |-> Unset,
                               others |-> 0]]
    /\ evpc = [r \in Reqs |-> "none"]
    /\ spent = 0

InitState ==
    /\ activeSessions = [id \in AllIds |-> NoSession]
    /\ InitOutside

\* the event-rich workload
Init ==
    /\ InitState
    /\ validation = NoCall
    /\ stats = NoStats
    /\ lim = RichWorkload

\* the event-rich workload or the capacity workload
InitCap ==
    /\ InitState
    /\ validation = NoCall
    /\ stats = NoStats
    /\ lim \in {RichWorkload, CapWorkload}

\* the event-rich workload or the reuse workload
InitReuse ==
    /\ InitState
    /\ validation = NoCall
    /\ stats = NoStats
    /\ lim \in {RichWorkload, ReuseWorkload}

\* the fault workload
InitFault ==
    /\ InitState
    /\ validation = NoCall
    /\ stats = NoStats
    /\ lim = FaultWorkload

\* the event-rich workload with ENABLE_DEBUG=true
InitDebug ==
    /\ InitState
    /\ validation = NoCall
    /\ stats = NoStats
    /\ lim = DebugWorkload

\* no request yet; validatePhoneNumber is about to be called on some argument
InitValidate ==
    /\ InitState
    /\ lim = RichWorkload
    /\ validation \in {[phone |-> p, called |-> FALSE, result |-> Falsy] : p \in ValidateInputs}
    /\ stats = NoStats

\* The registries getStats is tried on: up to MaxLive sessions created in the
\* order of their identifiers, some of them cleaned up since, each of the
\* others in one of three statuses the code writes.
StatsStatuses == {"initializing", "paired", "connected"}
StatsPhone(id) ==
    IF id % 2 = 1 THEN <<"9", "2", "3", "1", "2", "3", "4", "5", "6", "7", "8", "9">>
    ELSE <<"1", "4", "1", "5", "5", "5", "5", "0", "1", "0", "0">>
StatsRegistries ==
    {[id \in 0..MaxLive |->
        IF id # NoId /\ st[id] # "cleaned"
        THEN [NewSession(id, "10.0.0.1", StatsPhone(id)) EXCEPT !.status = st[id]]
        ELSE NoSession] : st \in [1..MaxLive -> StatsStatuses \cup {"cleaned"}]}

\* some registry; getStats is about to be called
InitStats ==
    /\ activeSessions \in StatsRegistries
    /\ InitOutside
    /\ lim = RichWorkload
    /\ validation = NoCall
    /\ stats = NoStats

Next ==
    \/ \E r \in Reqs, raw \in RawInputs, ip \in NextIPs : pairGet(r, raw, ip)
    \/ \E r \in Reqs : EnsureDirDone(r)
    \/ \E r \in Reqs : EnsureDirThrow(r)
    \/ \E r \in Reqs : AuthStateThrow(r)
    \/ \E r \in Reqs : MakeSocketThrow(r)
    \/ \E r \in Reqs : RemoveDone(r)
    \/ \E r \in Reqs, registered \in BOOLEAN : AuthStateDone(r, registered)
    \/ \E r \in Reqs, code \in NextCodes : PairingCodeDone(r, code)
    \/ \E r \in Reqs : PairingCodeThrow(r)
    \/ \E r \in Reqs : ConnOpen(r)
    \/ \E r \in Reqs, kind \in CloseKinds : ConnClose(r, kind)
    \/ \E r \in Reqs : ConnOther(r)
    \/ \E r \in Reqs : SettleDone(r)
    \/ \E r \in Reqs : SendNoUser(r)
    \/ \E r \in Reqs : SendDone(r)
    \/ \E r \in Reqs : SendThrow(r)
    \/ \E r \in Reqs : CloseDelayDone(r)
    \/ \E r \in Reqs : DelayedCleanupFire(r)
    \/ \E r \in Reqs : ExpiryFire(r)
    \/ \E id \in IssuedIds \cup {NoId} : AdminCleanup(id)

Spec == Init /\ [][Next]_vars

SpecCap == InitCap /\ [][Next]_vars

SpecReuse == InitReuse /\ [][Next]_vars

SpecDebug == InitDebug /\ [][Next]_vars

SpecFault == InitFault /\ [][Next]_vars

\* getStats on its own
SpecStats == InitStats /\ [][GetStats]_vars

\* validatePhoneNumber on its own
SpecValidate == InitValidate /\ [][Validate]_vars

\* the awaited call of the orchestrator of request r returns or throws
Returns(r) ==
    \/ EnsureDirDone(r)
    \/ EnsureDirThrow(r)
    \/ AuthStateThrow(r)
    \/ MakeSocketThrow(r)
    \/ RemoveDone(r)
    \/ \E registered \in BOOLEAN : AuthStateDone(r, registered)
    \/ \E code \in NextCodes : PairingCodeDone(r, code)
    \/ PairingCodeThrow(r)

\* Every call the orchestrator awaits (fs.ensureDir, useMultiFileAuthState,
\* fs.remove, delay, requestPairingCode) eventually returns or throws.
AnswerSpec ==
    /\ Init
    /\ [][Next]_vars
    /\ \A r \in Reqs : WF_vars(Returns(r))

\* A timer that createSession scheduled eventually fires: the callback of a
\* pending setTimeout stays enabled until it runs.
LiveSpec ==
    /\ Init
    /\ [][Next]_vars
    /\ \A r \in Reqs : WF_vars(ExpiryFire(r))

\* ==================================================================== claims
Status(x) == IF "status" \in DOMAIN x THEN x.status ELSE 0
ErrorOf(x) == IF "error" \in DOMAIN x THEN x.error ELSE Unset
Live(id) == activeSessions[id] # NoSession
Created(id) == id \in IssuedIds
Answered(r, status, error) == Status(resp[r]) = status /\ ErrorOf(resp[r]) = error

\* C1: whichever of the three cleanup triggers (admin call, delayed cleanup
\* after 'open', expiry timer) comes first, the effects of cleanup happen
\* once: after a cleanupSession(id) call on a created session the session is
\* not live and exactly one archival record was written for it, however many
\* further calls follow; cleanup requests the close of a socket at most once.
C1_CleanupExactlyOnce ==
    /\ \A id \in AllIds :
         /\ archiveWrites[id] <= 1
         /\ (archive[id] # NoRecord) <=> (archiveWrites[id] = 1)
         /\ archiveWrites[id] = 1 => ~Live(id)
         /\ (Created(id) /\ cleanupCalls[id] >= 1) => (~Live(id) /\ archiveWrites[id] = 1)
         /\ ~Created(id) => archiveWrites[id] = 0
    /\ \A r \in Reqs : sock[r].closes.cleanup <= 1

\* C1 witness: all three triggers have called cleanupSession for one session
C1_Witness ==
    \E r \in Reqs :
        /\ expiryTimer[r] = "fired"
        /\ evpc[r] = "done"
        /\ cleanupCalls[sid[r]] >= 3
        /\ archiveWrites[sid[r]] = 1
        /\ sock[r].closes.cleanup = 1

\* C2: the live sessions of one source address never exceed maxSessionsPerIP,
\* however the requests of that address interleave.
C2_CapPerAddress ==
    \A ip \in IPs : Cardinality(SessionsOf(ip)) <= maxSessionsPerIP

\* C2 witness: one address has created a session more than the cap (an
\* earlier one was reclaimed in between) and holds exactly maxSessionsPerIP
C2_Witness ==
    \E ip \in IPs :
        /\ Cardinality({r \in Reqs : clientIP[r] = ip /\ sid[r] # NoId}) = CapReq
        /\ Cardinality(SessionsOf(ip)) = maxSessionsPerIP

\* C3 (as claimed): a session that received no connection event and was
\* cleaned up by its expiry timer has status `expired`.
C3_ExpiredStatus ==
    \A r \in Reqs :
        (/\ expiryTimer[r] = "fired"
         /\ sock[r].phase \in {"none", "connecting"}
         /\ archive[sid[r]] # NoRecord)
        => archive[sid[r]].status = "expired"

TerminalStatuses == {"failed", "logged_out", "expired"}

\* C4 (as claimed): no step changes the status of a live session whose status
\* is failed, logged_out or expired.
C4_TerminalIsFinal ==
    [][\A id \in Ids :
          (/\ Live(id)
           /\ activeSessions[id].status \in TerminalStatuses
           /\ activeSessions'[id] # NoSession)
          => activeSessions'[id].status = activeSessions[id].status]_vars

\* C5: every session in the live set is eventually removed from it and
\* archived, provided the scheduled timers fire (the event-rich workload
\* issues the identifiers 1..MaxReq).
C5_EventuallyReclaimed ==
    \A id \in 1..MaxReq : Live(id) ~> (~Live(id) /\ archive[id] # NoRecord)

\* C5 witness: a session whose orchestrator threw has been reclaimed
C5_Witness ==
    \E r \in Reqs :
        /\ raised[r] # Unset
        /\ pc[r] = "done"
        /\ ~Live(sid[r])
        /\ archive[sid[r]] # NoRecord

\* C6 (as claimed, for a session still registered): when the handler answers
\* 200 with code c, the orchestrator returned {success: true, code: c} and the
\* session has status `code_issued` and pairingCode c.
C6_CodeIssued ==
    [][\A r \in Reqs :
          (/\ resp[r] = NoResponse
           /\ Status(resp'[r]) = 200
           /\ activeSessions'[sid[r]] # NoSession)
          => /\ result'[r] = Success(resp'[r].code)
             /\ activeSessions'[sid[r]].pairingCode = resp'[r].code
             /\ activeSessions'[sid[r]].status = "code_issued"]_vars

\* the step in which sock.requestPairingCode rejects for request r
PairingFails(r) == pc[r] = "requestCode" /\ result'[r] = Failure("pairError")

\* C7 (as claimed): when the pairing-code request fails the orchestrator
\* returns {success: false, error}, the caller is answered 500 PAIRING_FAILED
\* and the session has status `failed` with that error.
C7_FailedRecorded ==
    [][\A r \in Reqs :
          PairingFails(r)
          => /\ Status(resp'[r]) = 500 /\ ErrorOf(resp'[r]) = "PAIRING_FAILED"
             /\ activeSessions'[sid[r]] # NoSession
             /\ activeSessions'[sid[r]].status = "failed"
             /\ activeSessions'[sid[r]].error = "pairError"]_vars

\* C7 (amended): when the pairing-code request fails the orchestrator returns
\* {success: false, error} and the caller is answered 500 PAIRING_FAILED; the
\* session, if it is still in the live set, has status `failed` with that
\* error, and if it was cleaned up before, the live set and the archive are
\* left as they were.
C7_FailedRecordedIfLive ==
    [][\A r \in Reqs :
          PairingFails(r)
          => /\ Status(resp'[r]) = 500 /\ ErrorOf(resp'[r]) = "PAIRING_FAILED"
             /\ IF Live(sid[r])
                THEN /\ activeSessions'[sid[r]] # NoSession
                     /\ activeSessions'[sid[r]].status = "failed"
                     /\ activeSessions'[sid[r]].error = "pairError"
                ELSE UNCHANGED <<activeSessions, archive>>]_vars

\* C7 witness: a failed pairing-code request recorded on a live session
C7_Witness ==
    \E r \in Reqs :
        /\ result[r] = Failure("pairError")
        /\ Answered(r, 500, "PAIRING_FAILED")
        /\ Live(sid[r])
        /\ activeSessions[sid[r]].status = "failed"
        /\ activeSessions[sid[r]].error = "pairError"

\* C8 (as claimed): when the loaded credentials are registered the
\* orchestrator returns {success: false, error: "already registered"} and the
\* caller is answered with a failure.
C8_AlreadyRegistered ==
    \A r \in Reqs :
        (sock[r].registered /\ pc[r] = "done")
        => /\ result[r] = Failure("already registered")
           /\ Status(resp[r]) >= 400

C10_RejectedLeavesRegistry ==
    [][\A r \in Reqs :
          (resp[r] = NoResponse /\ Status(resp'[r]) \in {400, 429})
          => /\ UNCHANGED <<activeSessions, expiryTimer, tempDir, archive, sid>>
             /\ pc'[r] = "done"]_vars

\* C10 witness: with the cap reached by one address, a further request of
\* that address was answered 429 and the address still holds exactly
\* maxSessionsPerIP sessions; the rejected request has neither session nor timer
C10_Witness ==
    \E r \in Reqs :
        /\ Answered(r, 429, "RATE_LIMIT_EXCEEDED")
        /\ Cardinality(SessionsOf(clientIP[r])) = maxSessionsPerIP
        /\ Cardinality(LiveIds) = maxSessionsPerIP
        /\ sid[r] = NoId
        /\ expiryTimer[r] = "unset"

\* C11: a step never changes the pairingCode of a session that has one and
\* stays registered, whichever operation the step is (handler update,
\* connection event, a cleanup of another session).
C11_PairingCodeImmutable ==
    [][\A id \in Ids :
          (/\ Live(id)
           /\ activeSessions[id].pairingCode # Unset
           /\ activeSessions'[id] # NoSession)
          => activeSessions'[id].pairingCode = activeSessions[id].pairingCode]_vars

\* C11 witness: a session with a pairing code went through 'open' and a
\* logged-out 'close' and still carries the code the caller was given
C11_Witness ==
    \E r \in Reqs :
        /\ Live(sid[r])
        /\ Status(resp[r]) = 200
        /\ sock[r].phase = "close"
        /\ activeSessions[sid[r]].status = "logged_out"
        /\ activeSessions[sid[r]].pairingCode = resp[r].code

\* C12: createSession is never applied with an identifier that is in the
\* live set: the step in which a handler obtains its sessionId finds no
\* session registered under it.  This is the assumption of fresh draws
\* itself: it holds of Spec by the definition of generateSessionId and fails
\* of SpecReuse as soon as a draw repeats a live identifier.
C12_NeverOverwritten ==
    [][\A r \in Reqs :
          (sid[r] = NoId /\ sid'[r] # NoId) => ~Live(sid'[r])]_vars

SpecStatuses == {"initializing", "connecting", "code_issued", "connected",
                 "disconnected", "logged_out", "failed", "expired"}

\* C13 (as claimed): the status of every live session and of every archival
\* record is one of initializing, connecting, code_issued, connected,
\* disconnected, logged_out, failed, expired.
C13_StatusInDomain ==
    \A id \in Ids :
        /\ Live(id) => activeSessions[id].status \in SpecStatuses
        /\ archive[id] # NoRecord => archive[id].status \in SpecStatuses

\* C14 (as claimed): the expiry timer of a session never fires after the
\* session's cleanup: a cleanup that comes first cancels the pending timer,
\* so a timer that fires finds its session in the live set.
C14_TimerCancelledByCleanup ==
    [][\A r \in Reqs :
          (expiryTimer[r] = "pending" /\ expiryTimer'[r] = "fired")
          => (Live(sid[r]) /\ cleanupCalls[sid[r]] = 0)]_vars

\* the step sends the response of request r
Responds(r) == resp[r] = NoResponse /\ resp'[r] # NoResponse

\* the step is one of the connect-and-confirm sequence of request r: a
\* connection event, a step of the 'open' handler or its delayed cleanup
ConnectStep(r) == sock'[r].phase # sock[r].phase \/ evpc'[r] # evpc[r]

\* the session id, if registered before and after the step, differs at most
\* in the fields `mayChange`
OnlyFieldsChange(id, mayChange) ==
    (activeSessions[id] # NoSession /\ activeSessions'[id] # NoSession)
    => \A k \in DOMAIN activeSessions[id] \ mayChange :
           activeSessions'[id][k] = activeSessions[id][k]

\* The response is sent in the slice in which the orchestrator returns, before
\* any step of the connect-and-confirm sequence; that sequence, running after
\* the response, leaves the response as it is and changes of the session at
\* most the fields `mayChange`, until the cleanup removes it.
RespondsAtOnce(mayChange) ==
    \A r \in Reqs :
        /\ (result[r] = Pending /\ result'[r] # Pending) => Responds(r)
        /\ Responds(r) => /\ evpc[r] = "none"
                          /\ sock[r].phase # "open"
                          /\ sock[r].sent = 0
                          /\ sock[r].closes.handler = 0
        /\ (resp[r] # NoResponse /\ ConnectStep(r))
           => /\ resp'[r] = resp[r]
              /\ result'[r] = result[r]
              /\ OnlyFieldsChange(sid[r], mayChange)

\* C15 (as claimed): the response is sent as soon as the pairing-code request
\* succeeded or a definitive failure occurred, without waiting for 'open', the
\* confirmation message, the transport close or the cleanup, and the
\* connect-and-confirm steps after the response change only the session's
\* status and its eventual cleanup.
C15_RespondsAtOnce == [][RespondsAtOnce({"status"})]_vars

\* C15 (amended): as C15, the connect-and-confirm steps after the response
\* changing only the session's status and error fields and its eventual
\* cleanup.
C15_RespondsAtOnceStatusError == [][RespondsAtOnce({"status", "error"})]_vars

\* C15 witness: the caller was given a code; afterwards the connection opened,
\* the confirmation was sent, the transport close was requested and the
\* delayed cleanup archived the session as connected
C15_Witness ==
    \E r \in Reqs :
        /\ Status(resp[r]) = 200
        /\ result[r] = Success(resp[r].code)
        /\ evpc[r] = "done"
        /\ sock[r].sent = 1
        /\ sock[r].closes.handler = 1
        /\ ~Live(sid[r])
        /\ archive[sid[r]] # NoRecord
        /\ archive[sid[r]].status = "connected"
        /\ archive[sid[r]].pairingCode = resp[r].code

\* C16 (as claimed): a 'close' with the logged-out indication sets the
\* session's status to logged_out and leaves a response already sent as it
\* is; when it came before the pairing code was issued, the request is
\* answered 500 PAIRING_FAILED with the session still logged_out; the cleanup
\* of the session removes its temporary storage.
C16_LoggedOutClose ==
    [][\A r \in Reqs :
          /\ (/\ sock[r].phase # "close"
               /\ sock'[r].phase = "close"
               /\ sock'[r].lastDisconnect = "loggedOut"
               /\ Live(sid[r]))
             => /\ activeSessions'[sid[r]] # NoSession
                /\ activeSessions'[sid[r]].status = "logged_out"
                /\ resp'[r] = resp[r]
          /\ (sock[r].lastDisconnect = "loggedOut" /\ Responds(r))
             => /\ Status(resp'[r]) = 500 /\ ErrorOf(resp'[r]) = "PAIRING_FAILED"
                /\ Live(sid[r]) => /\ activeSessions'[sid[r]] # NoSession
                                   /\ activeSessions'[sid[r]].status = "logged_out"
          /\ (/\ sock[r].lastDisconnect = "loggedOut"
               /\ Live(sid[r])
               /\ activeSessions'[sid[r]] = NoSession)
             => ~tempDir'[sid[r]]]_vars

\* C17 (as claimed): after a session has been cleaned up, no temporary
\* storage keyed by its id exists, wherever the pairing flow was suspended
\* when cleanupSession ran.
C17_NoStorageAfterCleanup ==
    \A id \in Ids :
        (Created(id) /\ cleanupCalls[id] >= 1 /\ ~Live(id)) => ~tempDir[id]

\* C18 (as claimed): no log line contains a raw phone number: every phone a
\* log line names is a hashPhoneNumber digest.
C18_NoRawPhoneLogged ==
    \A e \in log :
        /\ e.phone # <<>>
        /\ Head(e.phone) = "sha256"

\* the digits of s, in order
RECURSIVE DigitsOf(_)
DigitsOf(s) ==
    IF s = <<>> THEN <<>>
    ELSE IF Head(s) \in {"0", "1", "2", "3", "4", "5", "6", "7", "8", "9"}
         THEN <<Head(s)>> \o DigitsOf(Tail(s))
         ELSE DigitsOf(Tail(s))

\* C19: validatePhoneNumber returns the digits of its argument iff there are
\* between 10 and 15 of them and the first is not 0, and false otherwise; the
\* result is determined by the argument, and the call changes nothing else.
C19_ValidatePhoneNumber ==
    [][validation' # validation
       => LET d == DigitsOf(validation.phone)
              valid == Len(d) >= 10 /\ Len(d) <= 15 /\ d[1] # "0"
          IN /\ validation'.phone = validation.phone
             /\ validation'.result = IF valid THEN d ELSE Falsy
             /\ (validation'.result # Falsy) <=> valid
             /\ UNCHANGED <<registry, expiryTimer, flow, conn, log>>]_vars

\* C19 witness: fifteen digits written in groups were accepted as the bare
\* digits
C19_Witness ==
    /\ validation.called
    /\ Len(validation.phone) > 15
    /\ Len(validation.result) = 15
    /\ validation.result # validation.phone

RECURSIVE SumOver(_, _)
SumOver(f, S) ==
    IF S = {} THEN 0
    ELSE LET x == CHOOSE y \in S : TRUE IN f[x] + SumOver(f, S \ {x})

\* C20: what getStats returns agrees with the live set: total is the number
\* of live sessions, byStatus has one count for each status a live session
\* has, equal to the number of live sessions with it, the counts sum to total,
\* recent holds at most 5 live sessions, each once, with the digest in place
\* of the phone; the call changes no session and nothing else.
C20_GetStats ==
    [][stats' # stats
       => /\ UNCHANGED <<registry, expiryTimer, flow, conn, log, validation>>
          /\ stats'.total = Cardinality(Keys(activeSessions))
          /\ DOMAIN stats'.byStatus = {activeSessions[id].status : id \in Keys(activeSessions)}
          /\ \A s \in DOMAIN stats'.byStatus :
                 stats'.byStatus[s] =
                     Cardinality({id \in Keys(activeSessions) : activeSessions[id].status = s})
          /\ SumOver(stats'.byStatus, DOMAIN stats'.byStatus) = stats'.total
          /\ Len(stats'.recent) <= 5
          /\ \A i \in DOMAIN stats'.recent :
                 LET e == stats'.recent[i] IN
                 /\ e.id \in Keys(activeSessions)
                 /\ e.status = activeSessions[e.id].status
                 /\ e.phone = hashPhoneNumber(activeSessions[e.id].phone)
                 /\ e.phone # activeSessions[e.id].phone
                 /\ \A j \in DOMAIN stats'.recent : j # i => stats'.recent[j].id # e.id]_vars

\* C20 witness: getStats was called on a registry of more than five sessions
\* in more than one status and returned the five created last
C20_Witness ==
    /\ stats # NoStats
    /\ stats.total > 5
    /\ Cardinality(DOMAIN stats.byStatus) > 1
    /\ Len(stats.recent) = 5
    /\ \A i \in 1..5 : stats.recent[i].id = stats.total - 5 + i

\* the statuses the glossary calls terminal
FinalStatuses == TerminalStatuses \cup {"disconnected"}

\* C21 (as claimed): a fault caught in the connection-event handling after the
\* response was sent is recorded on the session, and the session is archived
\* by its cleanup with a terminal status and that record.
C21_FaultRecorded ==
    \A r \in Reqs :
        (sock[r].msgError # Unset /\ resp[r] # NoResponse)
        => /\ Live(sid[r]) => activeSessions[sid[r]].error # Unset
           /\ (evpc[r] = "done" /\ archive[sid[r]] # NoRecord)
              => /\ archive[sid[r]].error # Unset
                 /\ archive[sid[r]].status \in FinalStatuses

\* the step handles connection === 'open' for request r
Opens(r) == sock[r].phase = "connecting" /\ sock'[r].phase = "open"
\* the step calls sock.sendMessage for request r
Sends(r) == sock'[r].sent > sock[r].sent
\* the step of the 'open' handler calls sock.ws.close() for request r
HandlerCloses(r) == sock'[r].closes.handler > sock[r].closes.handler
\* the step schedules the final cleanup of request r
SchedulesCleanup(r) == evpc[r] # "cleanupTimer" /\ evpc'[r] = "cleanupTimer"

\* the order of the 'open' handler, with what the handler has done when it
\* schedules the cleanup given by AtSchedule(r)
OpenSequence(AtSchedule(_)) ==
    \A r \in Reqs :
        /\ (Opens(r) /\ Live(sid[r]))
           => /\ activeSessions'[sid[r]].status = "connected"
              /\ sock[r].sent = 0 /\ sock[r].closes.handler = 0
              /\ evpc[r] = "none"
        /\ Sends(r) => /\ sock[r].sent = 0
                       /\ sock[r].phase \in {"open", "close"}
                       /\ sock[r].closes.handler = 0
        /\ HandlerCloses(r) => /\ evpc[r] = "closeDelay"
                               /\ sock[r].closes.handler = 0
        /\ SchedulesCleanup(r) => /\ evpc[r] = "closeDelay"
                                  /\ AtSchedule(r)

\* C22 (as claimed): on 'open' the status is set to connected first, then
\* exactly one confirmation message is sent, then the transport close is
\* requested, then the final cleanup is scheduled; the close is not requested
\* before the send attempt has finished, the cleanup not before the close.
C22_OpenSequence ==
    [][OpenSequence(LAMBDA r : /\ sock'[r].sent = 1
                               /\ sock'[r].closes.handler = 1)]_vars

\* C22 (amended): as C22, with one send attempt (a message sent, or no
\* message when the connection has no own identity) and the close requested
\* unless the transport reported 'close' before.
C22_OpenSequenceAttempted ==
    [][OpenSequence(LAMBDA r :
          /\ (sock'[r].sent = 1) # (sock'[r].msgError = "sock.user is undefined")
          /\ sock'[r].sent <= 1
          /\ IF sock[r].phase = "close"
             THEN sock'[r].closes.handler = 0
             ELSE sock'[r].closes.handler = 1)]_vars

\* C22 witness: the handler has set connected, sent the message, requested
\* the close and scheduled the cleanup
C22_Witness ==
    \E r \in Reqs :
        /\ evpc[r] = "cleanupTimer"
        /\ Live(sid[r])
        /\ activeSessions[sid[r]].status = "connected"
        /\ sock[r].sent = 1
        /\ sock[r].msgError = Unset
        /\ sock[r].closes.handler = 1

\* the step handles connection === 'close' for request r
Closes(r) == sock[r].phase # "close" /\ sock'[r].phase = "close"

\* C23: a 'close' with the logged-out indication sets the status logged_out
\* and records the reason, a 'close' with another error sets disconnected and
\* records the error; there is no retry: a socket that reported 'close' stays
\* closed, none goes back to connecting, and a session has at most one socket.
C23_CloseNoRetry ==
    [][\A r \in Reqs :
          /\ (Closes(r) /\ Live(sid[r]) /\ sock'[r].lastDisconnect = "loggedOut")
             => /\ activeSessions'[sid[r]].status = "logged_out"
                /\ activeSessions'[sid[r]].error = "Logged out from WhatsApp"
          /\ (Closes(r) /\ Live(sid[r]) /\ sock'[r].lastDisconnect = "error")
             => /\ activeSessions'[sid[r]].status = "disconnected"
                /\ activeSessions'[sid[r]].error = "error.message"
          /\ sock[r].phase = "close" => sock'[r].phase = "close"
          /\ sock[r].phase # "none" => sock'[r].phase # "none"
          /\ sock[r].phase \in {"open", "close"} => sock'[r].phase # "connecting"
          /\ \A q \in Reqs :
                (q # r /\ sid'[q] = sid'[r] /\ sid'[r] # NoId)
                => (sock'[q].phase = "none" \/ sock'[r].phase = "none")]_vars

\* C23 witness: a socket that was open reported 'close' with an error; the
\* session is disconnected with the error recorded
C23_Witness ==
    \E r \in Reqs :
        /\ sock[r].phase = "close"
        /\ sock[r].lastDisconnect = "error"
        /\ evpc[r] # "none"
        /\ Live(sid[r])
        /\ activeSessions[sid[r]].status = "disconnected"
        /\ activeSessions[sid[r]].error = "error.message"

\* C24 (as claimed): after the cleanup of a session, every socket that
\* initiateWhatsAppPairing made for it has been asked to close (or has
\* reported 'close'), also when cleanupSession ran before the socket was
\* stored on the session.
C24_CleanupClosesConnection ==
    \A r \in Reqs :
        (/\ sid[r] # NoId
         /\ cleanupCalls[sid[r]] >= 1
         /\ ~Live(sid[r])
         /\ sock[r].phase # "none")
        => \/ sock[r].closes.cleanup + sock[r].closes.handler >= 1
           \/ sock[r].phase = "close"

\* The steps whose only call on the registry is updateSession(sid[r], ...),
\* with the fields they pass: the socket is stored, the handler resumes with
\* the orchestrator's result, 'open', 'close'.
StoresSocket(r) == sock[r].phase = "none" /\ sock'[r].phase = "connecting"
Resumes(r) == result[r] = Pending /\ result'[r] # Pending
UpdateFields(r) ==
    (IF StoresSocket(r) THEN {"socket"} ELSE {})
    \cup (IF Resumes(r) THEN {"status", "pairingCode", "error"} ELSE {})
    \cup (IF Opens(r) THEN {"status"} ELSE {})
    \cup (IF Closes(r) THEN {"status", "error"} ELSE {})

C26_AnsweredCodeIsLive ==
    [][\A r \in Reqs :
          (Responds(r) /\ Status(resp'[r]) = 200)
          => /\ activeSessions'[sid[r]] # NoSession
             /\ activeSessions'[sid[r]].pairingCode = resp'[r].code]_vars

\* the request whose createSession call made the session now held under the
\* identifier of request r: handlers start in index order and create their
\* session in the step that draws the identifier
LastCreator(r) == CHOOSE q \in Reqs : /\ sid[q] = sid[r]
                                      /\ \A p \in Reqs : sid[p] = sid[r] => p <= q

\* C27: the timer that the createSession call of request r scheduled, when
\* it fires, either cleans up the session that call created or changes
\* nothing; it never cleans up a session created later under the same id.
C27_TimerOwnSession ==
    [][\A r \in Reqs :
          (expiryTimer[r] = "pending" /\ expiryTimer'[r] = "fired")
          => \/ LastCreator(r) = r
             \/ /\ activeSessions' = activeSessions
                /\ archive' = archive]_vars

\* C28: once a request is answered 500 PAIRING_FAILED, and for as long as no
\* cleanupSession call (expiry timer, admin or delayed cleanup) was made for
\* its session, the session is in the live set with status failed and is
\* among the sessions canCreateSession counts for the request's address.
C28_FailedStaysLive ==
    \A r \in Reqs :
        (Answered(r, 500, "PAIRING_FAILED") /\ cleanupCalls[sid[r]] = 0)
        => /\ Live(sid[r])
           /\ activeSessions[sid[r]].status = "failed"
           /\ sid[r] \in SessionsOf(clientIP[r])

\* the step delivers a connection.update that is neither 'open' nor 'close'
OtherUpdate(r) == sock'[r].others > sock[r].others

\* C29: a 'close' that carries neither the logged-out status code nor an
\* error leaves the status and the error of the session as they were, and a
\* connection event other than 'open' and 'close' changes no field of any
\* session.
C29_PlainCloseAndOtherEvents ==
    [][\A r \in Reqs :
          /\ (Closes(r) /\ sock'[r].lastDisconnect = "plain" /\ Live(sid[r]))
             => /\ activeSessions'[sid[r]] # NoSession
                /\ activeSessions'[sid[r]].status = activeSessions[sid[r]].status
                /\ activeSessions'[sid[r]].error = activeSessions[sid[r]].error
          /\ OtherUpdate(r) => activeSessions' = activeSessions]_vars

\* C29 witness: a live session has seen an event that was neither 'open' nor
\* 'close' and then a 'close' without an error, its code still issued
C29_Witness ==
    \E r \in Reqs :
        /\ sock[r].others >= 1
        /\ sock[r].lastDisconnect = "plain"
        /\ sid[r] # NoId
        /\ Live(sid[r])
        /\ activeSessions[sid[r]].status = "paired"

SendFails(r) == sock[r].msgError = Unset /\ sock'[r].msgError # Unset

\* What follows a failed send, `closed(r)` being what the step that ends the
\* second delay does to the transport: the failure is caught (the handler
\* goes on to its second delay and nothing else changes), that step
\* schedules the final cleanup, and the cleanup, when it fires, leaves the
\* session out of the live set.
AfterSendFailure(closed(_)) ==
    \A r \in Reqs :
        /\ SendFails(r) => /\ evpc'[r] = "closeDelay"
                           /\ UNCHANGED <<registry, expiryTimer, flow>>
        /\ (sock[r].msgError # Unset /\ evpc[r] = "closeDelay" /\ evpc'[r] # evpc[r])
           => /\ SchedulesCleanup(r)
              /\ closed(r)
        /\ (sock[r].msgError # Unset /\ evpc[r] = "cleanupTimer" /\ evpc'[r] # evpc[r])
           => /\ evpc'[r] = "done"
              /\ cleanupCalls'[sid[r]] = cleanupCalls[sid[r]] + 1
              /\ activeSessions'[sid[r]] = NoSession

\* C31 (as claimed): when the send of the confirmation message fails (it
\* throws, or the connection has no own identity) the failure is caught in
\* the handler, the transport close is still requested, the final cleanup is
\* still scheduled and removes the session from the live set.
C31_SendFailureCaught ==
    [][AfterSendFailure(LAMBDA r : HandlerCloses(r))]_vars

\* C31 (amended): as C31, with the transport close requested unless the
\* connection reported 'close' before the second delay ended.
C31_SendFailureCaughtUnlessClosed ==
    [][AfterSendFailure(LAMBDA r : IF sock[r].phase = "close"
                                   THEN sock'[r].closes = sock[r].closes
                                   ELSE HandlerCloses(r))]_vars

\* C31 witness: the send threw, the handler requested the close, and the
\* cleanup it scheduled has removed and archived the session
C31_Witness ==
    \E r \in Reqs :
        /\ sock[r].msgError = "sendMessage rejected"
        /\ sock[r].closes.handler = 1
        /\ evpc[r] = "done"
        /\ sid[r] # NoId
        /\ ~Live(sid[r])
        /\ archive[sid[r]] # NoRecord

====
